---------------------------- MODULE Spec2Model ----------------------------
(***************************************************************************)
(* State-machine model of the tweet collection pipeline:                   *)
(*   DataOrganizer   (generateAnalytics, generateFinetuningData,           *)
(*                    saveTweets, getTweetsForAccount,                     *)
(*                    createMergedCharacter)                               *)
(*   TwitterPipeline (processTweetData, collectTweets, run, cleanup,       *)
(*                    saveProgress)                                        *)
(*   index.js        (main, the SIGINT/SIGTERM handler)                    *)
(*                                                                         *)
(* JavaScript values are encoded as follows.  An optional value (null or   *)
(* undefined against a present value) is a sequence of length 0 or 1.      *)
(* A string is a sequence of one-character strings.  Epoch timestamps are  *)
(* counted in units of 10^7 ms so that the constants of processTweetData   *)
(* fit TLC's integers; the unit divides every constant involved.           *)
(***************************************************************************)
EXTENDS Integers, Sequences, FiniteSets, TLC

VARIABLES
    \* ---- generateAnalytics ----
    tweets,        \* the array handed to generateAnalytics
    analytics,     \* the outcome of the call: NotCalled, Returned(..), Raised
    \* ---- processTweetData ----
    rawTweet,      \* the raw record last handed to processTweetData (None: null)
    processed,     \* the outcome of that call
    oldestTweetDate, \* stats.oldestTweetDate: None (null) or Some(Date)
    newestTweetDate, \* stats.newestTweetDate
    \* ---- generateFinetuningData ----
    ftTweets,      \* the array handed to generateFinetuningData
    ftData,        \* its result, None before the call
    ftAgain,       \* the result of the same extraction on ftData's entries
    \* ---- getTweetsForAccount / createMergedCharacter ----
    accountDirs,   \* the source accounts' directories: None (no directory) or
                   \* Some(the dated partitions in readdir order)
    mergeOptions,  \* the options handed to createMergedCharacter, None before
    mergePc,       \* "start", "loading", "ranking", "done" or "failed"
    nextAccount,   \* index of the source account to load next
    allTweets,     \* the allTweets array of createMergedCharacter
    mergeSaved,    \* what saveTweets did for the merged character
    mergedName,    \* the name given for the merged character
    mergeWrites,   \* the files the merge has written: [dir, file] records
    \* ---- index.js and TwitterPipeline.run ----
    env,           \* the names of the environment variables that are set
    dateFlags,     \* --start-date and --end-date were both given
    filterConfig,  \* the options handed to tweetFilter.setOptions, None before
    pc,            \* where the main flow stands (see RunSteps)
    sig,           \* the signal handler: "none", "logout" (awaiting logout)
    exitCode,      \* None while the process lives, Some(code) after exit
    feedCalls,     \* the methods of the scraper called so far
    collected,     \* collectedTweets of collectTweets
    requestCount,  \* stats.requestCount
    uniqueTweets,  \* stats.uniqueTweets
    runSaved,      \* what saveTweets did for the run
    runFailed,     \* the catch block of run() was entered
    cleanupSteps,  \* the steps of TwitterPipeline.cleanup attempted so far
    progressFile,  \* meta/progress.json: None or Some(record)
    runError,      \* what run() caught: "none", "rateLimit", "feed", "save"
    delivered,     \* the raw records the feed iterator has yielded, in order
    rateLimitHits, \* stats.rateLimitHits
    retriesCount,  \* stats.retriesCount
    fallbackUsed,  \* stats.fallbackUsed
    \* ---- saveTweets, write by write ----
    savePosts,     \* the array handed to saveTweets
    saveWritten,   \* the files the call has written so far, in order
    saveState,     \* "idle", "writing", "returned" or "raised"
    saveFailed,    \* the file whose write was rejected, or "none"
    \* ---- ranking under reordering ----
    permuted,      \* the posts of tweets in another arrival order
    analyticsPermuted, \* the outcome of generateAnalytics(permuted)
    rankedTop,     \* what createMergedCharacter ranks and cuts from tweets
    rankedPermuted, \* the same, from permuted
    \* ---- logError ----
    errorLog,      \* the list in meta/error_log.json (entries by number)
    logCalls,      \* the number of the entry logged last
    logPersisted,  \* every entry a write has put on disk, in order
    logReadFault,  \* a read of the log file has failed while it existed
    \* ---- createDirectories beside its caller ----
    mkdirNext,     \* index in dirs of the mkdir in flight; 0: none started
    dirsCreated,   \* the directories of the partition that exist
    callerPlan,    \* what the owner of the DataOrganizer is executing
    callerPc,      \* the index of its next step
    dirWrites      \* the writeFile calls issued so far, in order

analyzeVars == <<tweets, analytics>>
normalizeVars == <<rawTweet, processed, oldestTweetDate, newestTweetDate>>
cleanVars == <<ftTweets, ftData, ftAgain>>
mergeVars ==
    <<accountDirs, mergeOptions, mergePc, nextAccount, allTweets, mergeSaved,
      mergedName, mergeWrites>>

runVars ==
    <<env, dateFlags, filterConfig, pc, sig, exitCode, feedCalls, collected,
      requestCount, uniqueTweets, runSaved, runFailed, cleanupSteps,
      progressFile, runError, delivered, rateLimitHits, retriesCount,
      fallbackUsed>>

saveVars == <<savePosts, saveWritten, saveState, saveFailed>>
reorderVars ==
    <<permuted, analyticsPermuted, rankedTop, rankedPermuted>>
logVars == <<errorLog, logCalls, logPersisted, logReadFault>>
dirVars == <<mkdirNext, dirsCreated, callerPlan, callerPc, dirWrites>>

vars ==
    <<analyzeVars, normalizeVars, cleanVars, mergeVars, runVars, saveVars,
      reorderVars, logVars, dirVars>>

\* What an action of one part of the program leaves alone.
moreVars == <<saveVars, reorderVars, logVars, dirVars>>
exceptAnalyze == <<normalizeVars, cleanVars, mergeVars, runVars, moreVars>>
exceptNormalize == <<analyzeVars, cleanVars, mergeVars, runVars, moreVars>>
exceptClean == <<analyzeVars, normalizeVars, mergeVars, runVars, moreVars>>
exceptMerge == <<analyzeVars, normalizeVars, cleanVars, runVars, moreVars>>
\* The run touches the date trackers of processTweetData as well.
\* No statement of the pipeline assigns rateLimitHits, retriesCount (outside
\* the fallback's taskerror handler, never installed) or fallbackUsed.
exceptRun ==
    <<analyzeVars, rawTweet, processed, cleanVars, mergeVars, moreVars,
      rateLimitHits, retriesCount, fallbackUsed>>
exceptSave ==
    <<analyzeVars, normalizeVars, cleanVars, mergeVars, runVars, reorderVars,
      logVars, dirVars>>
exceptReorder ==
    <<normalizeVars, cleanVars, mergeVars, runVars, saveVars, logVars,
      dirVars>>
exceptLog ==
    <<analyzeVars, normalizeVars, cleanVars, mergeVars, runVars, saveVars,
      reorderVars, dirVars>>
exceptDirs ==
    <<analyzeVars, normalizeVars, cleanVars, mergeVars, runVars, saveVars,
      reorderVars, logVars>>

-----------------------------------------------------------------------------
(* Generic helpers *)

None == <<>>
Some(x) == <<x>>
IsSome(o) == Len(o) = 1
Val(o) == o[1]

Min2(a, b) == IF a <= b THEN a ELSE b

\* All sequences over S of length at most n.
BSeq(S, n) == UNION {[1..k -> S] : k \in 0..n}

\* s restricted to the elements satisfying the predicate coded by keep[i].
RECURSIVE FilterIdx(_, _, _)
FilterIdx(s, keep, i) ==
    IF i > Len(s) THEN <<>>
    ELSE IF keep[i] THEN <<s[i]>> \o FilterIdx(s, keep, i + 1)
    ELSE FilterIdx(s, keep, i + 1)

\* Array.prototype.slice(0, n) for n >= 0.
Slice0(s, n) == SubSeq(s, 1, Min2(n, Len(s)))

\* The pairs of each first component in values, from the largest value down,
\* each group in the order it has in pairs.
RECURSIVE SortBuckets(_, _)
SortBuckets(pairs, values) ==
    IF values = {} THEN <<>>
    ELSE LET v == CHOOSE x \in values : \A y \in values : x >= y
         IN SelectSeq(pairs, LAMBDA p : p[1] = v)
            \o SortBuckets(pairs, values \ {v})

Seconds(pairs) == [k \in 1..Len(pairs) |-> pairs[k][2]]

\* Array.prototype.sort(compare) with compare(a, b) = score(b) - score(a):
\* descending by score; the sort is stable (ECMAScript 2019), so elements of
\* equal score keep their relative order.  score is a function on 1..Len(s).
SortDescStable(s, score) ==
    LET pairs == [i \in 1..Len(s) |-> <<score[i], s[i]>>]
    IN Seconds(SortBuckets(pairs, {score[i] : i \in 1..Len(s)}))

RECURSIVE SumSeq(_)
SumSeq(s) == IF s = <<>> THEN 0 ELSE Head(s) + SumSeq(Tail(s))


-----------------------------------------------------------------------------
(* Posts: the objects processTweetData returns and tweets.json stores *)

\* text is a string ("" and undefined are both the empty sequence),
\* timestamp is None for null.
MkPost(id, text, ts, isReply, isRetweet, likes, retweetCount, replies) ==
    [id |-> id, text |-> text, timestamp |-> ts, isReply |-> isReply,
     isRetweet |-> isRetweet, likes |-> likes, retweetCount |-> retweetCount,
     replies |-> replies]

\* Bound on the length of the arrays handed to generateAnalytics.
MaxTweets == 6

\* The posts the analysed arrays are drawn from: three like counts, a tie in
\* likes between distinct ids, a reply, a retweet, and a post whose
\* timestamp is null (as a hand-edited or foreign tweets.json may hold).
AnalyticsPool ==
    { MkPost(1, <<"a">>, Some(170000), FALSE, FALSE, 0, 1, 0),
      MkPost(2, <<"a">>, Some(170009), TRUE,  FALSE, 1, 0, 1),
      MkPost(3, <<"a">>, Some(170018), FALSE, FALSE, 2, 2, 0),
      MkPost(4, <<"a">>, Some(170027), FALSE, TRUE,  1, 2, 1),
      MkPost(5, <<"a">>, None,         FALSE, FALSE, 1, 0, 0) }

-----------------------------------------------------------------------------
(* DataOrganizer.generateAnalytics *)

\* .slice(0, 5)
TopTweetsCount == 5

\* format(new Date(ts), 'yyyy-MM-dd'): the calendar day (UTC) holding ts,
\* as a day number.  One day is 8.64 units of 10^7 ms.
FormatDate(ts) == (ts \div 864) * 100 + ((ts % 864) * 100) \div 864

\* tweets.filter((t) => !t.isRetweet)
tweetsForEngagement(ts) ==
    FilterIdx(ts, [i \in 1..Len(ts) |-> ~ts[i].isRetweet], 1)

\* tweets.filter((t) => t.timestamp !== null)
validTweets(ts) ==
    FilterIdx(ts, [i \in 1..Len(ts) |-> ts[i].timestamp # None], 1)

\* One entry of engagement.topTweets.
TopEntry(t) ==
    [id |-> t.id, likes |-> t.likes, retweetCount |-> t.retweetCount,
     replies |-> t.replies, timestamp |-> t.timestamp]

TopTweetsUnsorted(ts) ==
    LET top == Slice0(tweetsForEngagement(ts), TopTweetsCount)
    IN [k \in 1..Len(top) |-> TopEntry(top[k])]

TopTweetsNoSlice(ts) ==
    LET e == tweetsForEngagement(ts)
        sorted == SortDescStable(e, [i \in 1..Len(e) |-> e[i].likes])
    IN [k \in 1..Len(sorted) |-> TopEntry(sorted[k])]

\* tweetsForEngagement.sort((a, b) => (b.likes || 0) - (a.likes || 0))
\*                    .slice(0, 5).map(...)
TopTweets(ts) ==
    LET e == tweetsForEngagement(ts)
        sorted == SortDescStable(e, [i \in 1..Len(e) |-> e[i].likes])
        top == Slice0(sorted, TopTweetsCount)
    IN [k \in 1..Len(top) |-> TopEntry(top[k])]

\* (sum / n).toFixed(2), in hundredths; None stands for "NaN" (0 / 0).
\* With n below 8 no quotient lies exactly between two hundredths.
ToFixed2(sum, n) ==
    IF n = 0 THEN None ELSE Some((200 * sum + n) \div (2 * n))

\* The early return for an empty array (lines 125-150).
EmptyAnalytics ==
    [totalTweets |-> 0, directTweets |-> 0, replies |-> 0, retweets |-> 0,
     totalLikes |-> 0, totalRetweetCount |-> 0, totalReplies |-> 0,
     averageLikes |-> Some(0), topTweets |-> <<>>,
     timeRange |-> [start |-> None, end |-> None]]

\* format(new Date(validDates[0])) with validDates empty formats an Invalid
\* Date, and date-fns raises RangeError: the call returns nothing.
AnalyticsRaises(ts) == Len(ts) > 0 /\ validTweets(ts) = <<>>

\* The object returned at lines 167-217 (content-type counts left out).
\* timeRange holds day numbers; None stands for "N/A".
generateAnalytics(ts) ==
    IF Len(ts) = 0 THEN EmptyAnalytics
    ELSE
      LET v == validTweets(ts)
          dates == {Val(v[i].timestamp) : i \in 1..Len(v)}
          lo == CHOOSE d \in dates : \A x \in dates : d <= x
          hi == CHOOSE d \in dates : \A x \in dates : d >= x
          e == tweetsForEngagement(ts)
          n == Len(ts)
          totalLikes == SumSeq([i \in 1..Len(e) |-> e[i].likes])
      IN [totalTweets |-> n,
          directTweets |->
              Cardinality({i \in 1..n : ~ts[i].isReply /\ ~ts[i].isRetweet}),
          replies |-> Cardinality({i \in 1..n : ts[i].isReply}),
          retweets |-> Cardinality({i \in 1..n : ts[i].isRetweet}),
          totalLikes |-> totalLikes,
          totalRetweetCount |-> SumSeq([i \in 1..Len(e) |-> e[i].retweetCount]),
          totalReplies |-> SumSeq([i \in 1..Len(e) |-> e[i].replies]),
          averageLikes |-> ToFixed2(totalLikes, Len(e)),
          topTweets |-> TopTweets(ts),
          timeRange |-> [start |-> Some(FormatDate(lo)),
                         end |-> Some(FormatDate(hi))]]

\* The outcome of a call: the returned object, or the raised error.
Returned(x) == [kind |-> "returned", value |-> x]
Raised == [kind |-> "raised"]
NotCalled == [kind |-> "notCalled"]

AnalyzeIdle == tweets = <<>> /\ analytics = NotCalled

NormalizeIdle ==
    /\ rawTweet = None
    /\ processed = NotCalled
    /\ oldestTweetDate = None
    /\ newestTweetDate = None

CleanIdle == ftTweets = <<>> /\ ftData = None /\ ftAgain = None

\* The two source accounts of a merge, in command-line order.
sourceAccounts == <<"a", "b">>

NothingSaved ==
    [written |-> <<>>, raised |-> FALSE, failed |-> "none", corpus |-> None]

MergeIdle ==
    /\ accountDirs = [acc \in {"a", "b"} |-> None]
    /\ mergeOptions = None
    /\ mergePc = "start"
    /\ nextAccount = 1
    /\ allTweets = <<>>
    /\ mergeSaved = NothingSaved
    /\ mergedName = "m"
    /\ mergeWrites = {}

\* The environment variables the pipeline reads.
EnvNames ==
    {"TWITTER_USERNAME", "TWITTER_PASSWORD", "TWITTER_AUTH_TOKEN", "TWITTER_CT0"}

\* The state index.js starts main() in, all variables set.
RunIdle ==
    /\ env = EnvNames
    /\ dateFlags = TRUE
    /\ filterConfig = None
    /\ pc = "main"
    /\ sig = "none"
    /\ exitCode = None
    /\ feedCalls = {}
    /\ collected = <<>>
    /\ requestCount = 0
    /\ uniqueTweets = 0
    /\ runSaved = NothingSaved
    /\ runFailed = FALSE
    /\ cleanupSteps = {}
    /\ progressFile = None
    /\ runError = "none"
    /\ delivered = <<>>
    /\ rateLimitHits = 0
    /\ retriesCount = 0
    /\ fallbackUsed = FALSE

SaveIdle ==
    /\ savePosts = <<>>
    /\ saveWritten = <<>>
    /\ saveState = "idle"
    /\ saveFailed = "none"

ReorderIdle ==
    /\ permuted = <<>>
    /\ analyticsPermuted = NotCalled
    /\ rankedTop = None
    /\ rankedPermuted = None

LogIdle ==
    /\ errorLog = <<>>
    /\ logCalls = 0
    /\ logPersisted = <<>>
    /\ logReadFault = FALSE

DirsIdle ==
    /\ mkdirNext = 0
    /\ dirsCreated = {}
    /\ callerPlan = "none"
    /\ callerPc = 1
    /\ dirWrites = <<>>

MoreIdle == SaveIdle /\ ReorderIdle /\ LogIdle /\ DirsIdle

\* A call generateAnalytics(tweets).
Analyze ==
    /\ analytics = NotCalled
    /\ analytics' = IF AnalyticsRaises(tweets) THEN Raised
                    ELSE Returned(generateAnalytics(tweets))
    /\ UNCHANGED <<tweets, exceptAnalyze>>

InitAnalyze ==
    /\ tweets \in BSeq(AnalyticsPool, MaxTweets)
    /\ analytics = NotCalled
    /\ NormalizeIdle /\ CleanIdle /\ MergeIdle /\ RunIdle /\ MoreIdle

NextAnalyze == Analyze

SpecAnalyze == InitAnalyze /\ [][NextAnalyze]_vars

\* The posts of the data model: the timestamp is a valid epoch value.
AllTimestampsValid(ts) == \A i \in 1..Len(ts) : ts[i].timestamp # None

CountNonRetweets(ts) == Cardinality({i \in 1..Len(ts) : ~ts[i].isRetweet})

\* C1: for every array of posts with valid timestamps, generateAnalytics
\* returns, engagement.topTweets has exactly min(5, number of non-retweet
\* posts) entries, and the entries are non-increasing in likes.
C1_TopTweetsLengthAndOrder ==
    (analytics # NotCalled /\ AllTimestampsValid(tweets)) =>
        /\ analytics.kind = "returned"
        /\ LET top == analytics.value.topTweets
           IN /\ Len(top) = Min2(TopTweetsCount, CountNonRetweets(tweets))
              /\ \A k \in 1..(Len(top) - 1) : top[k].likes >= top[k + 1].likes

\* C1 witness: more than five non-retweet posts with differing likes were
\* analysed, so the truncation and the ordering both acted.
C1_Witness ==
    /\ analytics # NotCalled
    /\ AllTimestampsValid(tweets)
    /\ CountNonRetweets(tweets) > TopTweetsCount
    /\ Len(tweets) > 1
    /\ tweets[1].likes < tweets[Len(tweets)].likes
    /\ analytics.kind = "returned"
    /\ Len(analytics.value.topTweets) = TopTweetsCount

-----------------------------------------------------------------------------
(* TwitterPipeline.processTweetData *)

\* JavaScript values of tweet.timestamp: undefined, a number, NaN, or a
\* string that is not a number.
Undef == [k |-> "undef", v |-> 0]
Num(n) == [k |-> "num", v |-> n]
NaN == [k |-> "nan", v |-> 0]
Str == [k |-> "str", v |-> 0]

\* Values of tweet.timeParsed: undefined, a Date (getTime() = v), an Invalid
\* Date (getTime() is NaN), or an object that has no getTime method.
NoDate == [k |-> "undef", v |-> 0]
DateOf(n) == [k |-> "date", v |-> n]
InvalidDateObj == [k |-> "invalid", v |-> 0]
NotADate == [k |-> "notDate", v |-> 0]

\* 1e12 (line 242), in units of 10^7 ms.
SecondsThreshold == 100000
\* timestamp *= 1000 (line 242).
MsPerSecond == 1000
\* The largest time value of a Date, 8.64e15 ms: new Date(t) beyond it is an
\* Invalid Date, whose toISOString() raises RangeError (line 268).
MaxTimeValue == 864000000

\* A Date object of stats.oldestTweetDate / newestTweetDate.
NewDate(t) ==
    IF t >= -MaxTimeValue /\ t <= MaxTimeValue
    THEN [valid |-> TRUE, ms |-> t]
    ELSE [valid |-> FALSE, ms |-> 0]

\* a < b on Dates: false when either is an Invalid Date (NaN).
DateLess(a, b) == a.valid /\ b.valid /\ a.ms < b.ms

\* !x for a JavaScript value of tweet.timestamp or of getTime().
Falsy(x) == x.k = "undef" \/ x.k = "nan" \/ (x.k = "num" /\ x.v = 0)

\* x || 0 for an optional number.
OrZero(o) == IF IsSome(o) /\ Val(o) # 0 THEN Val(o) ELSE 0

\* Boolean(x) for an optional boolean.
ToBoolean(o) == IsSome(o) /\ Val(o)

RawTimestamps ==
    {Undef, NaN, Str} \cup
    {Num(n) : n \in {-170, 0, 170, SecondsThreshold - 1, SecondsThreshold,
                     170000, MaxTimeValue, MaxTimeValue + 1}}

RawTimeParsed ==
    {NoDate, InvalidDateObj, NotADate} \cup
    {DateOf(n) : n \in {-170, 0, 90000, 170009}}

MkRaw(id, ts, tp, isReply, isRetweet, likes) ==
    [id |-> id, text |-> <<"a">>, timestamp |-> ts, timeParsed |-> tp,
     isReply |-> isReply,
     isRetweet |-> isRetweet, likes |-> likes, retweets |-> None,
     replies |-> None]

\* The raw records handed to processTweetData; None is null.
RawRecords ==
    {None} \cup
    {Some(MkRaw(id, ts, tp, None, Some(FALSE), None)) :
        id \in {None, Some(7)}, ts \in RawTimestamps, tp \in RawTimeParsed}
    \cup {Some(MkRaw(Some(8), Num(170009), NoDate, Some(TRUE), Some(TRUE),
                     Some(3)))}

\* What the body of the try block does: kind "returned" with the value (None
\* for null), or kind "raised"; and the two date trackers as it leaves them.
Outcome(kind, value, oldest, newest) ==
    [kind |-> kind, value |-> value, oldest |-> oldest, newest |-> newest]

processTweetBody(raw, oldest, newest) ==
    IF raw = None \/ Val(raw).id = None
    THEN Outcome("returned", None, oldest, newest)            \* line 233
    ELSE
      LET tweet == Val(raw)
          \* lines 235-238
          t1 == IF ~Falsy(tweet.timestamp) THEN tweet.timestamp
                ELSE IF tweet.timeParsed.k = "undef" THEN Undef
                ELSE IF tweet.timeParsed.k = "invalid" THEN NaN
                ELSE Num(tweet.timeParsed.v)
          getTimeRaises == Falsy(tweet.timestamp) /\ tweet.timeParsed.k = "notDate"
          \* line 242: a string that is not a number compares false
          t2 == IF t1.k = "num" /\ t1.v < SecondsThreshold
                THEN Num(t1.v * MsPerSecond) ELSE t1
          tweetDate == NewDate(t2.v)
          oldest2 == IF oldest = None \/ DateLess(tweetDate, Val(oldest))
                     THEN Some(tweetDate) ELSE oldest
          newest2 == IF newest = None \/ DateLess(Val(newest), tweetDate)
                     THEN Some(tweetDate) ELSE newest
      IN IF getTimeRaises THEN Outcome("raised", None, oldest, newest)
         ELSE IF Falsy(t1) THEN Outcome("returned", None, oldest, newest) \* 240
         ELSE IF t2.k # "num" \/ t2.v <= 0
              THEN Outcome("returned", None, oldest, newest)  \* lines 244-247
         ELSE IF ~tweetDate.valid
              THEN Outcome("raised", None, oldest2, newest2)  \* line 268
         ELSE Outcome("returned",
                      Some(MkPost(Val(tweet.id), tweet.text, Some(t2.v),
                                  ToBoolean(tweet.isReply),
                                  ToBoolean(tweet.isRetweet),
                                  OrZero(tweet.likes), OrZero(tweet.retweets),
                                  OrZero(tweet.replies))),
                      oldest2, newest2)

processTweetDataNoCatch(raw, oldest, newest) ==
    processTweetBody(raw, oldest, newest)

\* try { ... } catch (error) { Logger.warn(...); return null; }
processTweetData(raw, oldest, newest) ==
    LET r == processTweetBody(raw, oldest, newest)
    IN IF r.kind = "raised"
       THEN Outcome("returned", None, r.oldest, r.newest)
       ELSE r

\* A call processTweetData(raw) on a pipeline whose trackers hold the values
\* earlier calls left.
ProcessTweet ==
    \E raw \in RawRecords :
        LET r == processTweetData(raw, oldestTweetDate, newestTweetDate)
        IN /\ rawTweet' = raw
           /\ processed' = [kind |-> r.kind, value |-> r.value]
           /\ oldestTweetDate' = r.oldest
           /\ newestTweetDate' = r.newest
           /\ UNCHANGED exceptNormalize

InitNormalize ==
    /\ AnalyzeIdle /\ NormalizeIdle /\ CleanIdle /\ MergeIdle /\ RunIdle
    /\ MoreIdle

NextNormalize == ProcessTweet

SpecNormalize == InitNormalize /\ [][NextNormalize]_vars

\* The timestamp the record carries, as the claim reads it: the explicit
\* epoch field when it is set, else the parsed date's time.
GivenTimestamp(tweet) ==
    IF ~Falsy(tweet.timestamp) THEN tweet.timestamp
    ELSE IF tweet.timeParsed.k = "date" THEN Num(tweet.timeParsed.v)
    ELSE Undef

\* The derived epoch-millis value of a numeric given timestamp.
DerivedMillis(n) == IF n < SecondsThreshold THEN n * MsPerSecond ELSE n

\* The records the claim lists as answered by null: null itself, no id, no
\* derivable timestamp, a non-numeric timestamp, a derived value <= 0.
ListedAsNull(raw) ==
    \/ raw = None
    \/ Val(raw).id = None
    \/ Falsy(GivenTimestamp(Val(raw)))
    \/ GivenTimestamp(Val(raw)).k = "str"
    \/ DerivedMillis(GivenTimestamp(Val(raw)).v) <= 0

\* The derived value lies beyond the range of a Date.
BeyondDateRange(raw) ==
    /\ ~ListedAsNull(raw)
    /\ DerivedMillis(GivenTimestamp(Val(raw)).v) > MaxTimeValue

IsPositiveMillis(o) == IsSome(o) /\ Val(o) > 0 /\ Val(o) <= MaxTimeValue

\* C2 as stated: processTweetData never raises, answers null on the listed
\* records, and on every other record returns a Post whose timestamp is a
\* positive epoch-millis value.
C2_Original ==
    processed # NotCalled =>
        /\ processed.kind = "returned"
        /\ ListedAsNull(rawTweet) => processed.value = None
        /\ ~ListedAsNull(rawTweet) =>
              /\ processed.value # None
              /\ IsPositiveMillis(Val(processed.value).timestamp)

\* C2, amended: processTweetData never raises; it answers null on the listed
\* records and also on a record whose derived timestamp lies beyond the
\* range of a Date (8.64e15 ms); on every other record it returns a Post
\* whose timestamp is the positive derived epoch-millis value.
C2_NormalizeTotal ==
    processed # NotCalled =>
        /\ processed.kind = "returned"
        /\ (ListedAsNull(rawTweet) \/ BeyondDateRange(rawTweet))
              => processed.value = None
        /\ ~(ListedAsNull(rawTweet) \/ BeyondDateRange(rawTweet)) =>
              /\ processed.value # None
              /\ IsPositiveMillis(Val(processed.value).timestamp)
              /\ Val(Val(processed.value).timestamp) =
                    DerivedMillis(GivenTimestamp(Val(rawTweet)).v)

\* C2 witness: a record in epoch seconds was rescaled into a Post after a
\* call that answered null had been made on the same pipeline.
C2_Witness ==
    /\ processed # NotCalled
    /\ processed.value # None
    /\ Val(rawTweet).timestamp = Num(170)
    /\ Val(Val(processed.value).timestamp) = 170000
    /\ oldestTweetDate # None

\* C2 witness of the null cases: a record whose parsed date is not a Date
\* was answered by null.
C2_WitnessNull ==
    /\ processed # NotCalled
    /\ rawTweet # None
    /\ Val(rawTweet).id # None
    /\ Val(rawTweet).timeParsed = NotADate
    /\ Falsy(Val(rawTweet).timestamp)
    /\ processed.value = None

-----------------------------------------------------------------------------
(* DataOrganizer.generateFinetuningData *)

\* \s of the regular expressions: the whitespace characters of the model.
IsSpace(c) == c \in {" ", "\n"}

HasPrefixAt(s, i, p) ==
    /\ i + Len(p) - 1 <= Len(s)
    /\ SubSeq(s, i, i + Len(p) - 1) = p

\* The number of consecutive characters of s from position j on that are
\* neither whitespace nor in the set excl.
RECURSIVE RunLen(_, _, _)
RunLen(s, j, excl) ==
    IF j > Len(s) \/ IsSpace(s[j]) \/ s[j] \in excl THEN 0
    ELSE 1 + RunLen(s, j + 1, excl)

HttpPrefix == <<"h", "t", "t", "p", ":", "/", "/">>
HttpsPrefix == <<"h", "t", "t", "p", "s", ":", "/", "/">>
WwwPrefix == <<"w", "w", "w", ".">>

UrlPrefixLenHttpOnly(s, i) ==
    IF HasPrefixAt(s, i, HttpPrefix) THEN Len(HttpPrefix) ELSE 0

\* The length of what (?:https?:\/\/|www\.) matches at position i, 0 if
\* nothing.
UrlPrefixLen(s, i) ==
    IF HasPrefixAt(s, i, HttpsPrefix) THEN Len(HttpsPrefix)
    ELSE IF HasPrefixAt(s, i, HttpPrefix) THEN Len(HttpPrefix)
    ELSE IF HasPrefixAt(s, i, WwwPrefix) THEN Len(WwwPrefix)
    ELSE 0

\* .replace(/(?:https?:\/\/|www\.)[^\s]+/g, ''), scanning from position i.
RECURSIVE RemoveUrls(_, _)
RemoveUrls(s, i) ==
    IF i > Len(s) THEN <<>>
    ELSE LET p == UrlPrefixLen(s, i)
             run == RunLen(s, i + p, {})
         IN IF p > 0 /\ run > 0 THEN RemoveUrls(s, i + p + run)
            ELSE <<s[i]>> \o RemoveUrls(s, i + 1)

\* .replace(/#[^\s#]+/g, ''), scanning from position i.
RECURSIVE RemoveHashtags(_, _)
RemoveHashtags(s, i) ==
    IF i > Len(s) THEN <<>>
    ELSE LET run == RunLen(s, i + 1, {"#"})
         IN IF s[i] = "#" /\ run > 0 THEN RemoveHashtags(s, i + 1 + run)
            ELSE <<s[i]>> \o RemoveHashtags(s, i + 1)

\* .replace(/\s+/g, ' '), scanning from position i.
RECURSIVE CollapseSpaces(_, _)
CollapseSpaces(s, i) ==
    IF i > Len(s) THEN <<>>
    ELSE IF IsSpace(s[i])
         THEN IF i < Len(s) /\ IsSpace(s[i + 1]) THEN CollapseSpaces(s, i + 1)
              ELSE <<" ">> \o CollapseSpaces(s, i + 1)
    ELSE <<s[i]>> \o CollapseSpaces(s, i + 1)

\* .trim()
RECURSIVE Trim(_)
Trim(s) ==
    IF s = <<>> THEN s
    ELSE IF IsSpace(s[1]) THEN Trim(Tail(s))
    ELSE IF IsSpace(s[Len(s)]) THEN Trim(SubSeq(s, 1, Len(s) - 1))
    ELSE s

\* lines 231-235
cleanText(text) ==
    Trim(CollapseSpaces(RemoveHashtags(RemoveUrls(text, 1), 1), 1))

\* The tweets of the fine-tuning input: text ("" and undefined are both the
\* empty sequence), isRetweet (None: the property is absent) and timestamp
\* (null, or anything else).
FtTweet(text, isRetweet, timestampIsNull) ==
    [text |-> text, isRetweet |-> isRetweet, timestampIsNull |-> timestampIsNull]

\* lines 226-246: filter, map, filter.
RECURSIVE generateFinetuningData(_)
generateFinetuningData(ts) ==
    IF ts = <<>> THEN <<>>
    ELSE LET t == Head(ts)
             kept == ~ToBoolean(t.isRetweet) /\ t.text # <<>>
                     /\ ~t.timestampIsNull
             clean == cleanText(t.text)
         IN (IF kept /\ clean # <<>> THEN <<[text |-> clean]>> ELSE <<>>)
            \o generateFinetuningData(Tail(ts))

\* The entries of a fine-tuning corpus read as tweets again: {text} objects
\* have no isRetweet and no timestamp property (undefined !== null).
AsTweets(data) == [i \in 1..Len(data) |-> FtTweet(data[i].text, None, FALSE)]

\* Bound on the number of pieces a tweet text is put together from.
MaxPieces == 4

\* The pieces: the three URL openers, a hash sign, two whitespace
\* characters and an ordinary character.
TextPieces ==
    {HttpPrefix, HttpsPrefix, WwwPrefix, <<"#">>, <<" ">>, <<"\n">>, <<"a">>}

RECURSIVE Flatten(_)
Flatten(ps) == IF ps = <<>> THEN <<>> ELSE Head(ps) \o Flatten(Tail(ps))

Texts == {Flatten(ps) : ps \in BSeq(TextPieces, MaxPieces)}

\* A call generateFinetuningData(ftTweets).
Extract ==
    /\ ftData = None
    /\ ftData' = Some(generateFinetuningData(ftTweets))
    /\ UNCHANGED <<ftTweets, ftAgain, exceptClean>>

\* The same extraction applied to the entries it produced.
ExtractAgain ==
    /\ ftData # None /\ ftAgain = None
    /\ ftAgain' = Some(generateFinetuningData(AsTweets(Val(ftData))))
    /\ UNCHANGED <<ftTweets, ftData, exceptClean>>

InitClean ==
    /\ \E text \in Texts :
       \E flags \in {<<Some(FALSE), FALSE>>, <<None, FALSE>>,
                     <<Some(TRUE), FALSE>>, <<Some(FALSE), TRUE>>} :
           ftTweets = <<FtTweet(text, flags[1], flags[2])>>
    /\ ftData = None /\ ftAgain = None
    /\ AnalyzeIdle /\ NormalizeIdle /\ MergeIdle /\ RunIdle /\ MoreIdle

NextClean == Extract \/ ExtractAgain

SpecClean == InitClean /\ [][NextClean]_vars

\* URL-like, in the claim's words: http://, https:// or www. followed by a
\* non-space character.
UrlLike(s) ==
    \E i \in 1..Len(s) :
        \E p \in {HttpPrefix, HttpsPrefix, WwwPrefix} :
            /\ HasPrefixAt(s, i, p)
            /\ i + Len(p) <= Len(s)
            /\ ~IsSpace(s[i + Len(p)])

\* Hashtag-like, in the claim's words: # followed by a non-space character.
HashThenNonSpace(s) ==
    \E i \in 1..(Len(s) - 1) : s[i] = "#" /\ ~IsSpace(s[i + 1])

\* Hashtag-like, as the code reads it: # followed by a character that is
\* neither whitespace nor another #.
HashThenTagChar(s) ==
    \E i \in 1..(Len(s) - 1) :
        s[i] = "#" /\ ~IsSpace(s[i + 1]) /\ s[i + 1] # "#"

\* C3 as stated: the cleaned text holds no URL-like substring and no #
\* followed by a non-space character, and extracting again changes nothing.
C3_Original ==
    /\ ftData # None =>
          \A i \in 1..Len(Val(ftData)) :
              /\ ~UrlLike(Val(ftData)[i].text)
              /\ ~HashThenNonSpace(Val(ftData)[i].text)
    /\ ftAgain # None => Val(ftAgain) = Val(ftData)

\* C3, amended: the cleaned text holds no URL-like substring and no #
\* followed by a character that is neither whitespace nor another # (a run
\* of # signs such as "##" is kept), and extracting again changes nothing.
C3_CleanAndIdempotent ==
    /\ ftData # None =>
          \A i \in 1..Len(Val(ftData)) :
              /\ ~UrlLike(Val(ftData)[i].text)
              /\ ~HashThenTagChar(Val(ftData)[i].text)
              /\ Val(ftData)[i].text # <<>>
    /\ ftAgain # None => Val(ftAgain) = Val(ftData)

\* C3 witness: a text holding a URL and a hashtag was cleaned to a
\* non-empty text and extracted again.
C3_Witness ==
    /\ ftAgain # None
    /\ UrlLike(ftTweets[1].text)
    /\ HashThenTagChar(ftTweets[1].text)
    /\ Len(Val(ftData)) = 1
    /\ Val(ftData)[1].text # ftTweets[1].text

-----------------------------------------------------------------------------
(* DataOrganizer.saveTweets *)

\* A post as generateFinetuningData reads it.
AsFtTweet(t) == FtTweet(t.text, Some(t.isRetweet), t.timestamp = None)

PlannedWritesStatsFirst(ts) ==
    <<"tweets">> \o
    (IF AnalyticsRaises(ts) THEN <<"urls">>
     ELSE <<"stats", "urls">> \o
          (IF generateFinetuningData([i \in 1..Len(ts) |-> AsFtTweet(ts[i])])
                 # <<>>
           THEN <<"finetuning">> ELSE <<>>) \o
          <<"summary">>)

\* The files one call writes, in the order of its writeFile calls: analytics
\* are computed before stats.json is written, and finetuning.jsonl is written
\* only when there are entries (line 94).
PlannedWrites(ts) ==
    <<"tweets", "urls">> \o
    (IF AnalyticsRaises(ts) THEN <<>>
     ELSE <<"stats">> \o
          (IF generateFinetuningData([i \in 1..Len(ts) |-> AsFtTweet(ts[i])])
                 # <<>>
           THEN <<"finetuning">> ELSE <<>>) \o
          <<"summary">>)

\* The values of failAt: the file whose writeFile rejects, or "none".
WriteFailures == {"none", "tweets", "urls", "stats", "finetuning", "summary"}

\* saveTweets(tweets) when the write of file failAt rejects: the files
\* written, whether the call raised (the catch at lines 113-116 rethrows),
\* the file whose write was rejected, and the corpus now in raw/tweets.json.
saveTweets(ts, failAt) ==
    LET plan == PlannedWrites(ts)
        fails == \E k \in 1..Len(plan) : plan[k] = failAt
        stop == IF fails THEN (CHOOSE k \in 1..Len(plan) : plan[k] = failAt) - 1
                ELSE Len(plan)
        written == SubSeq(plan, 1, stop)
    IN [written |-> written,
        raised |-> fails \/ AnalyticsRaises(ts),
        failed |-> IF fails THEN failAt ELSE "none",
        corpus |-> IF stop >= 1 THEN Some(ts) ELSE None]

-----------------------------------------------------------------------------
(* DataOrganizer.getTweetsForAccount and createMergedCharacter *)

\* A dated folder of an account: its raw/tweets.json is absent, holds text
\* that JSON.parse rejects, or holds an array of posts.
NoRawFile == [kind |-> "noRaw", posts |-> <<>>]
CorruptFile == [kind |-> "corrupt", posts |-> <<>>]
File(posts) == [kind |-> "file", posts |-> posts]

\* options.tweetsPerAccount || 50
DefaultTweetsPerAccount == 50

\* Bound on the number of posts in an ordinary tweets.json of the model.
MaxPartLen == 1

\* The posts of the source accounts: by likes + retweetCount post 1 leads
\* and posts 2 and 3 tie; by likes post 2 leads; post 3 is a retweet.
MergePool ==
    { MkPost(1, <<"a">>, Some(170000), FALSE, FALSE, 1, 2, 0),
      MkPost(2, <<"a">>, Some(170009), FALSE, FALSE, 2, 0, 0),
      MkPost(3, <<"a">>, Some(170018), FALSE, TRUE,  1, 1, 0) }

\* A large tweets.json: one post more than the default cap.
BulkFile ==
    [i \in 1..(DefaultTweetsPerAccount + 1) |->
        MkPost(100 + i, <<"a">>, Some(170000 + i), FALSE, FALSE, i % 3, 0, 0)]

PartitionContents ==
    {NoRawFile, CorruptFile} \cup {File(s) : s \in BSeq(MergePool, MaxPartLen)}

\* The choices of the inquirer prompts (part_001 lines 17-37).
RankingMethods ==
    {"Total engagement (likes + retweets)", "Likes only", "Retweets only"}

MergeOptions ==
    [tweetsPerAccount : {0, 2, DefaultTweetsPerAccount + 10},
     excludeRetweets : BOOLEAN,
     rankingMethod : RankingMethods]

\* The body of the for loop over one folder without its try/catch.
RECURSIVE concatPartitionsNoCatch(_)
concatPartitionsNoCatch(listing) ==
    IF listing = <<>> THEN Returned(<<>>)
    ELSE IF Head(listing).kind # "file" THEN Raised
    ELSE LET rest == concatPartitionsNoCatch(Tail(listing))
         IN IF rest = Raised THEN Raised
            ELSE Returned(Head(listing).posts \o rest.value)

\* lines 296-304: readFile or JSON.parse raising is caught and ignored.
RECURSIVE concatPartitions(_)
concatPartitions(listing) ==
    IF listing = <<>> THEN Returned(<<>>)
    ELSE LET rest == concatPartitions(Tail(listing))
         IN IF Head(listing).kind # "file" THEN rest
            ELSE Returned(Head(listing).posts \o rest.value)

getTweetsForAccountNoCatch(dir) ==
    IF dir = None THEN Raised ELSE concatPartitionsNoCatch(Val(dir))

\* getTweetsForAccount on an account directory: readdir rejects when the
\* directory does not exist (line 293, outside the try).
getTweetsForAccount(dir) ==
    IF dir = None THEN Raised ELSE concatPartitions(Val(dir))

\* allTweets.filter(tweet => !tweet.isRetweet) when options.excludeRetweets
dropRetweets(ts, options) ==
    IF options.excludeRetweets THEN tweetsForEngagement(ts) ELSE ts

\* lines 320-324: the comparator reads likes and retweetCount only;
\* options.rankingMethod is not read.
rankTweets(ts, options) ==
    SortDescStable(ts, [i \in 1..Len(ts) |-> ts[i].likes + ts[i].retweetCount])

effectiveCapOffByOne(options) ==
    (IF options.tweetsPerAccount # 0 THEN options.tweetsPerAccount
     ELSE DefaultTweetsPerAccount) + 1

\* options.tweetsPerAccount || 50
effectiveCap(options) ==
    IF options.tweetsPerAccount # 0 THEN options.tweetsPerAccount
    ELSE DefaultTweetsPerAccount

\* username.toLowerCase() on the names a merge is run with.
ToLowerCase(name) ==
    IF name = "A" THEN "a"
    ELSE IF name = "B" THEN "b"
    ELSE IF name = "M" THEN "m"
    ELSE name

\* The account directory under pipeline/ that holds this.baseDir
\* (constructor, lines 9-13): every write of saveTweets goes to today's
\* folder in it.
baseDirAccount(name) == ToLowerCase(name)

\* createMergedCharacter is called with the options.
MergeStart ==
    /\ mergePc = "start"
    /\ \E options \in MergeOptions : mergeOptions' = Some(options)
    /\ mergePc' = "loading"
    /\ UNCHANGED <<accountDirs, nextAccount, allTweets, mergeSaved,
                   mergedName, mergeWrites, exceptMerge>>

\* One turn of the loop at lines 310-313.
MergeLoad ==
    /\ mergePc = "loading"
    /\ LET r == getTweetsForAccount(accountDirs[sourceAccounts[nextAccount]])
       IN IF r = Raised
          THEN /\ mergePc' = "failed"
               /\ UNCHANGED <<nextAccount, allTweets>>
          ELSE /\ allTweets' = allTweets \o r.value
               /\ nextAccount' = nextAccount + 1
               /\ mergePc' = IF nextAccount = Len(sourceAccounts)
                             THEN "ranking" ELSE "loading"
    /\ UNCHANGED <<accountDirs, mergeOptions, mergeSaved, mergedName,
                   mergeWrites, exceptMerge>>

\* The write failures a merge is run against: none, the first write, a
\* write in the middle.
MergeWriteFailures == {"none", "tweets", "stats"}

\* lines 315-329: filter, sort in place, slice, saveTweets.
MergeRankAndSave ==
    /\ mergePc = "ranking"
    /\ \E failAt \in MergeWriteFailures :
        LET options == Val(mergeOptions)
            ranked == rankTweets(dropRetweets(allTweets, options), options)
            topTweets == Slice0(ranked, effectiveCap(options))
            saved == saveTweets(topTweets, failAt)
        IN /\ allTweets' = ranked
           /\ mergeSaved' = saved
           /\ mergePc' = IF saved.raised THEN "failed" ELSE "done"
           /\ mergeWrites' =
                 {[dir |-> baseDirAccount(mergedName), file |-> saved.written[k]] :
                     k \in 1..Len(saved.written)}
    /\ UNCHANGED <<accountDirs, mergeOptions, nextAccount, mergedName,
                   exceptMerge>>

\* The directory trees a merge is run on: account a with two dated folders,
\* account b with one, either account possibly without a directory.
\* The contents of a second dated folder: files of at most one post.
LaterPartitionContents ==
    {NoRawFile, CorruptFile} \cup {File(s) : s \in BSeq(MergePool, 1)}

SourceTrees(bContents) ==
    {[a |-> da, b |-> db] :
        da \in {None} \cup
               {Some(<<c1, c2>>) :
                   c1 \in PartitionContents, c2 \in LaterPartitionContents},
        db \in {None} \cup {Some(<<c>>) : c \in bContents}}

InitMerge ==
    /\ \/ accountDirs \in SourceTrees(PartitionContents)
       \/ accountDirs \in SourceTrees({File(BulkFile)})
    /\ mergeOptions = None
    /\ mergePc = "start"
    /\ nextAccount = 1
    /\ allTweets = <<>>
    /\ mergeSaved = NothingSaved
    /\ mergedName = "m"
    /\ mergeWrites = {}
    /\ AnalyzeIdle /\ NormalizeIdle /\ CleanIdle /\ RunIdle /\ MoreIdle

NextMerge == MergeStart \/ MergeLoad \/ MergeRankAndSave

SpecMerge == InitMerge /\ [][NextMerge]_vars

\* The names a merged character may be given: a fresh one, and names that
\* lead to the directory of a source account.
MergedNames == {"m", "M", "A", "b"}

\* A merge under any of these names.  The constructor has started to create
\* today's folder under the merged name, so that directory is listed.
InitMergeInto ==
    /\ accountDirs \in SourceTrees({NoRawFile, File(<<>>)})
    /\ mergedName \in MergedNames
    /\ \A i \in 1..Len(sourceAccounts) :
          baseDirAccount(mergedName) = sourceAccounts[i]
              => accountDirs[sourceAccounts[i]] # None
    /\ mergeOptions = None
    /\ mergePc = "start"
    /\ nextAccount = 1
    /\ allTweets = <<>>
    /\ mergeSaved = NothingSaved
    /\ mergeWrites = {}
    /\ AnalyzeIdle /\ NormalizeIdle /\ CleanIdle /\ RunIdle /\ MoreIdle

SpecMergeInto == InitMergeInto /\ [][NextMerge]_vars

\* The posts of an account's readable partitions, in listing order.
ReadablePosts(dir) ==
    Flatten([i \in 1..Len(Val(dir)) |->
                IF Val(dir)[i].kind = "file" THEN Val(dir)[i].posts ELSE <<>>])

\* The same over the first n source accounts, in command-line order.
ReadableOfFirst(n) ==
    Flatten([k \in 1..n |-> ReadablePosts(accountDirs[sourceAccounts[k]])])

\* The score the claim gives a post under a ranking method.
ScoreBy(method, t) ==
    CASE method = "Total engagement (likes + retweets)" ->
             t.likes + t.retweetCount
      [] method = "Likes only" -> t.likes
      [] method = "Retweets only" -> t.retweetCount

\* The posts left after the optional retweet drop, by the claims' reading.
MergeCandidates ==
    LET all == ReadableOfFirst(Len(sourceAccounts))
    IN IF Val(mergeOptions).excludeRetweets
       THEN SelectSeq(all, LAMBDA t : ~t.isRetweet) ELSE all

\* Every element of the sequence c is an element of the sequence d.
EachAmong(c, d) ==
    {c[i] : i \in 1..Len(c)} \subseteq {d[k] : k \in 1..Len(d)}

\* C4: the corpus a merge saves is the posts sorted by the score of the
\* chosen rankingMethod, descending, equal scores in concatenation order
\* (cut to the cap the code applies).
C4_Original ==
    mergeSaved.corpus # None =>
        LET m == Val(mergeOptions).rankingMethod
            c == MergeCandidates
            ranked == SortDescStable(c, [i \in 1..Len(c) |-> ScoreBy(m, c[i])])
        IN Val(mergeSaved.corpus) = Slice0(ranked, effectiveCap(Val(mergeOptions)))

\* C5 as stated: for every tweetsPerAccount >= 0 the saved corpus has
\* min(tweetsPerAccount, number of posts left after the retweet drop) posts.
C5_Original ==
    mergeSaved.corpus # None =>
        Len(Val(mergeSaved.corpus)) =
            Min2(Val(mergeOptions).tweetsPerAccount, Len(MergeCandidates))

\* C5, amended: for every tweetsPerAccount >= 1 the saved corpus has
\* min(tweetsPerAccount, number of posts left after the retweet drop) posts,
\* the cap applied once over the combined list; tweetsPerAccount = 0 is
\* read as the default 50, so the corpus then has min(50, that number).
C5_GlobalCap ==
    mergeSaved.corpus # None =>
        LET n == Val(mergeOptions).tweetsPerAccount
        IN Len(Val(mergeSaved.corpus)) =
              Min2(IF n = 0 THEN DefaultTweetsPerAccount ELSE n,
                   Len(MergeCandidates))

\* C5 witness: a cap of 2 cut a combined list of more than 2 posts to which
\* both accounts contributed.
C5_Witness ==
    /\ mergePc = "done"
    /\ Val(mergeOptions).tweetsPerAccount = 2
    /\ ReadablePosts(accountDirs["a"]) # <<>>
    /\ ReadablePosts(accountDirs["b"]) # <<>>
    /\ Len(MergeCandidates) > 2
    /\ Len(Val(mergeSaved.corpus)) = 2

\* C5 witness of the default: tweetsPerAccount = 0 cut more than 50 posts
\* to 50.
C5_WitnessDefault ==
    /\ mergePc = "done"
    /\ Val(mergeOptions).tweetsPerAccount = 0
    /\ Len(MergeCandidates) > DefaultTweetsPerAccount
    /\ Len(Val(mergeSaved.corpus)) = DefaultTweetsPerAccount

\* C6: getTweetsForAccount returns the posts of the readable partitions in
\* listing order whatever the other partitions hold, and a merge fails only
\* when a source account has no directory or a write of saveTweets is
\* rejected, never because a partition's raw file is absent or unreadable.
C6_SkipsUnreadablePartitions ==
    /\ mergePc \in {"loading", "ranking"} =>
          allTweets = ReadableOfFirst(nextAccount - 1)
    /\ mergePc = "failed" =>
          \/ mergeSaved.failed # "none"
          \/ /\ nextAccount <= Len(sourceAccounts)
             /\ accountDirs[sourceAccounts[nextAccount]] = None
    /\ mergeSaved.corpus # None =>
          EachAmong(Val(mergeSaved.corpus), MergeCandidates)

\* C6 witness: a merge completed over an account whose first partition has
\* no raw file and whose second is readable, the other account's only
\* partition being unparseable.
C6_Witness ==
    /\ mergePc = "done"
    /\ Val(accountDirs["a"])[1] = NoRawFile
    /\ Val(accountDirs["a"])[2].kind = "file"
    /\ Val(accountDirs["a"])[2].posts # <<>>
    /\ Val(accountDirs["b"])[1] = CorruptFile
    /\ Val(mergeSaved.corpus) # <<>>

-----------------------------------------------------------------------------
(* index.js (main, the signal handler) and TwitterPipeline.run *)

\* The most records the feed delivers in one run.
MaxFeed == 3

TweetTypes == {"original", "replies", "quotes", "retweets"}

\* The options run() builds when both date flags are given (lines 363-370).
FlagsConfig == [mode |-> "Date Range", tweetTypes |-> TweetTypes]

\* What tweetFilter.promptCollectionMode() resolves to: a configuration, or
\* nothing (the case run() tests at line 377).
PromptAnswers ==
    {None,
     Some([mode |-> "All", tweetTypes |-> TweetTypes]),
     Some([mode |-> "All", tweetTypes |-> {"original", "replies"}])}

\* The type of a raw record, for the filter's type inclusion.
TweetTypeOf(tweet) ==
    IF ToBoolean(tweet.isRetweet) THEN "retweets"
    ELSE IF ToBoolean(tweet.isReply) THEN "replies"
    ELSE "original"

\* tweetFilter.shouldIncludeTweet(tweet): a pure predicate of the record and
\* the configuration; it keeps no memory of the records it has seen.  Type
\* inclusion, and in date-range mode a record without a timestamp is excluded
\* (the feed is queried with since:/until:, so its records lie in the range).
shouldIncludeTweet(raw, config) ==
    /\ TweetTypeOf(Val(raw)) \in config.tweetTypes
    /\ config.mode = "Date Range" =>
          ~(Falsy(Val(raw).timestamp) /\ Val(raw).timeParsed.k = "undef")

\* The records the search iterator may deliver, any of them more than once.
FeedPool ==
    {Some(MkRaw(Some(1), Num(170), NoDate, None, Some(FALSE), Some(3))),
     Some(MkRaw(Some(2), Num(170009), NoDate, Some(TRUE), Some(TRUE), None)),
     Some(MkRaw(None, Num(170), NoDate, None, Some(FALSE), None)),
     Some(MkRaw(Some(4), Num(MaxTimeValue + 1), NoDate, None, Some(FALSE),
                None))}

\* The variables validateEnvironment requires, and the ones initializeScraper
\* builds the session cookies from.
RequiredEnv == {"TWITTER_USERNAME", "TWITTER_PASSWORD"}
CookieEnv == {"TWITTER_AUTH_TOKEN", "TWITTER_CT0"}

\* The record saveProgress leaves in meta/progress.json.
ProgressRecord(totalTweets, withError) ==
    [progress |-> [completed |-> TRUE, error |-> withError],
     totalTweets |-> totalTweets]

\* The positions of the main flow.
RunSteps ==
    {"main", "prompt", "initializeScraper", "isLoggedIn", "getProfile",
     "collecting", "saving", "cleanupLogout", "cleanupProgress",
     "cleanupCatch", "returned", "rejected", "exited"}

\* The positions at which the main flow waits on input or output, so that a
\* signal can be handled.
AwaitSteps == RunSteps \ {"main", "returned", "rejected", "exited"}

\* index.js: the action builds the pipeline and calls run(), which runs up to
\* its first wait: validateEnvironment, then the filter options.
RunStart ==
    /\ pc = "main"
    /\ IF ~(RequiredEnv \subseteq env)
       THEN /\ pc' = "exited"                                  \* line 155
            /\ exitCode' = Some(1)
            /\ UNCHANGED filterConfig
       ELSE /\ exitCode' = exitCode
            /\ IF dateFlags
               THEN /\ filterConfig' = Some(FlagsConfig)
                    /\ pc' = "initializeScraper"
               ELSE /\ pc' = "prompt"
                    /\ UNCHANGED filterConfig
    /\ UNCHANGED <<env, dateFlags, sig, feedCalls, collected, requestCount,
                   delivered, uniqueTweets, runSaved, runFailed, runError,
                   cleanupSteps, progressFile, oldestTweetDate,
                   newestTweetDate>>
    /\ UNCHANGED exceptRun

\* run() lines 372-380.
Prompt ==
    /\ pc = "prompt"
    /\ \E answer \in PromptAnswers :
          /\ filterConfig' = answer
          /\ pc' = IF answer = None THEN "returned" ELSE "initializeScraper"
    /\ UNCHANGED <<env, dateFlags, sig, exitCode, feedCalls, collected,
                   requestCount, delivered, uniqueTweets, runSaved, runFailed,
                   runError, cleanupSteps, progressFile, oldestTweetDate,
                   newestTweetDate>>
    /\ UNCHANGED exceptRun

\* initializeScraper up to the end of setCookies; without both cookie
\* variables it returns false and run() returns.
InitializeScraper ==
    /\ pc = "initializeScraper"
    /\ IF CookieEnv \subseteq env
       THEN /\ feedCalls' = feedCalls \cup {"setCookies"}
            /\ \E ok \in BOOLEAN :
                  pc' = IF ok THEN "isLoggedIn" ELSE "returned"
       ELSE /\ pc' = "returned"
            /\ UNCHANGED feedCalls
    /\ UNCHANGED <<env, dateFlags, filterConfig, sig, exitCode, collected,
                   requestCount, delivered, uniqueTweets, runSaved, runFailed,
                   runError, cleanupSteps, progressFile, oldestTweetDate,
                   newestTweetDate>>
    /\ UNCHANGED exceptRun

\* initializeScraper line 201: a false answer and a rejection both end in
\* return false.
IsLoggedIn ==
    /\ pc = "isLoggedIn"
    /\ feedCalls' = feedCalls \cup {"isLoggedIn"}
    /\ \E answer \in {"true", "false", "raises"} :
          pc' = IF answer = "true" THEN "getProfile" ELSE "returned"
    /\ UNCHANGED <<env, dateFlags, filterConfig, sig, exitCode, collected,
                   requestCount, delivered, uniqueTweets, runSaved, runFailed,
                   runError, cleanupSteps, progressFile, oldestTweetDate,
                   newestTweetDate>>
    /\ UNCHANGED exceptRun

\* getProfile: a rejection is caught and null returned, and run() returns;
\* with a profile, collectTweets starts and calls searchTweets.
GetProfile ==
    /\ pc = "getProfile"
    /\ \E ok \in BOOLEAN :
          IF ok
          THEN /\ feedCalls' = feedCalls \cup {"getProfile", "searchTweets"}
               /\ pc' = "collecting"
          ELSE /\ feedCalls' = feedCalls \cup {"getProfile"}
               /\ pc' = "returned"
    /\ UNCHANGED <<env, dateFlags, filterConfig, sig, exitCode, collected,
                   requestCount, delivered, uniqueTweets, runSaved, runFailed,
                   runError, cleanupSteps, progressFile, oldestTweetDate,
                   newestTweetDate>>
    /\ UNCHANGED exceptRun

\* One turn of the loop of collectTweets (lines 313-322).
CollectNext ==
    /\ pc = "collecting"
    /\ requestCount < MaxFeed
    /\ \E raw \in FeedPool :
          LET r == processTweetData(raw, oldestTweetDate, newestTweetDate)
          IN /\ requestCount' = requestCount + 1
             /\ delivered' = Append(delivered, raw)
             /\ IF shouldIncludeTweet(raw, Val(filterConfig))
                THEN /\ oldestTweetDate' = r.oldest
                     /\ newestTweetDate' = r.newest
                     /\ IF r.value # None
                        THEN /\ collected' = Append(collected, Val(r.value))
                             /\ uniqueTweets' = uniqueTweets + 1
                        ELSE UNCHANGED <<collected, uniqueTweets>>
                ELSE UNCHANGED <<collected, uniqueTweets, oldestTweetDate,
                                 newestTweetDate>>
    /\ UNCHANGED <<env, dateFlags, filterConfig, pc, sig, exitCode, feedCalls,
                   runSaved, runFailed, runError, cleanupSteps, progressFile>>
    /\ UNCHANGED exceptRun

\* What the feed iterator may reject with: a rate-limit response (HTTP 429)
\* or any other failure.
FeedErrors == {"rateLimit", "feed"}

\* The iterator rejects: collectTweets has one catch for every error, which
\* logs and rethrows (lines 326-331), and the catch of run() starts cleanup.
CollectRaise ==
    /\ pc = "collecting"
    /\ \E cause \in FeedErrors : runError' = cause
    /\ runFailed' = TRUE
    /\ pc' = "cleanupLogout"
    /\ UNCHANGED <<env, dateFlags, filterConfig, sig, exitCode, feedCalls,
                   collected, requestCount, delivered, uniqueTweets, runSaved,
                   cleanupSteps, progressFile, oldestTweetDate,
                   newestTweetDate>>
    /\ UNCHANGED exceptRun

\* The iterator ends: run() saves a non-empty collection (line 394).
CollectEnd ==
    /\ pc = "collecting"
    /\ pc' = IF collected = <<>> THEN "returned" ELSE "saving"
    /\ UNCHANGED <<env, dateFlags, filterConfig, sig, exitCode, feedCalls,
                   collected, requestCount, delivered, uniqueTweets, runSaved,
                   runFailed, runError, cleanupSteps, progressFile,
                   oldestTweetDate, newestTweetDate>>
    /\ UNCHANGED exceptRun

\* The files whose write may be rejected while the run saves.
RunWriteFailures == {"none", "tweets", "summary"}

\* run() lines 396-400; a rejection of saveTweets enters the catch.
Save ==
    /\ pc = "saving"
    /\ \E failAt \in RunWriteFailures :
          LET s == saveTweets(collected, failAt)
          IN /\ runSaved' = s
             /\ runFailed' = s.raised
             /\ runError' = IF s.raised THEN "save" ELSE "none"
             /\ pc' = IF s.raised THEN "cleanupLogout" ELSE "returned"
    /\ UNCHANGED <<env, dateFlags, filterConfig, sig, exitCode, feedCalls,
                   collected, requestCount, delivered, uniqueTweets,
                   cleanupSteps, progressFile, oldestTweetDate,
                   newestTweetDate>>
    /\ UNCHANGED exceptRun

\* cleanup() line 506; this.cluster is null, so lines 511-514 do nothing.
CleanupLogout ==
    /\ pc = "cleanupLogout"
    /\ feedCalls' = feedCalls \cup {"logout"}
    /\ cleanupSteps' = cleanupSteps \cup {"logout"}
    /\ \E ok \in BOOLEAN :
          pc' = IF ok THEN "cleanupProgress" ELSE "cleanupCatch"
    /\ UNCHANGED <<env, dateFlags, filterConfig, sig, exitCode, collected,
                   requestCount, delivered, uniqueTweets, runSaved, runFailed,
                   runError, progressFile, oldestTweetDate, newestTweetDate>>
    /\ UNCHANGED exceptRun

\* cleanup() lines 516-522, the write of saveProgress succeeding or not.
CleanupProgress ==
    /\ pc = "cleanupProgress"
    /\ cleanupSteps' = cleanupSteps \cup {"saveProgress"}
    /\ \E ok \in BOOLEAN :
          IF ok
          THEN /\ progressFile' = Some(ProgressRecord(uniqueTweets, FALSE))
               /\ pc' = "returned"
          ELSE /\ pc' = "cleanupCatch"
               /\ UNCHANGED progressFile
    /\ UNCHANGED <<env, dateFlags, filterConfig, sig, exitCode, feedCalls,
                   collected, requestCount, delivered, uniqueTweets, runSaved,
                   runFailed, runError, oldestTweetDate, newestTweetDate>>
    /\ UNCHANGED exceptRun

\* cleanup() lines 525-532: the second saveProgress is not guarded, so its
\* rejection leaves cleanup(), run() and the action.
CleanupCatch ==
    /\ pc = "cleanupCatch"
    /\ cleanupSteps' = cleanupSteps \cup {"saveProgressError"}
    /\ \E ok \in BOOLEAN :
          IF ok
          THEN /\ progressFile' = Some(ProgressRecord(uniqueTweets, TRUE))
               /\ pc' = "returned"
          ELSE /\ pc' = "rejected"
               /\ UNCHANGED progressFile
    /\ UNCHANGED <<env, dateFlags, filterConfig, sig, exitCode, feedCalls,
                   collected, requestCount, delivered, uniqueTweets, runSaved,
                   runFailed, runError, oldestTweetDate, newestTweetDate>>
    /\ UNCHANGED exceptRun

\* index.js line 53.
MainResolved ==
    /\ pc = "returned"
    /\ pc' = "exited"
    /\ exitCode' = Some(0)
    /\ UNCHANGED <<env, dateFlags, filterConfig, sig, feedCalls, collected,
                   requestCount, delivered, uniqueTweets, runSaved, runFailed,
                   runError, cleanupSteps, progressFile, oldestTweetDate,
                   newestTweetDate>>
    /\ UNCHANGED exceptRun

\* index.js lines 54-57.
MainRejected ==
    /\ pc = "rejected"
    /\ pc' = "exited"
    /\ exitCode' = Some(1)
    /\ UNCHANGED <<env, dateFlags, filterConfig, sig, feedCalls, collected,
                   requestCount, delivered, uniqueTweets, runSaved, runFailed,
                   runError, cleanupSteps, progressFile, oldestTweetDate,
                   newestTweetDate>>
    /\ UNCHANGED exceptRun

\* SIGINT or SIGTERM while the main flow waits: the handler (index.js lines
\* 32-36) finds the pipeline and its scraper and calls logout.
Signal ==
    /\ pc \in AwaitSteps
    /\ sig = "none"
    /\ sig' = "logout"
    /\ feedCalls' = feedCalls \cup {"logout"}
    /\ UNCHANGED <<env, dateFlags, filterConfig, pc, exitCode, collected,
                   requestCount, delivered, uniqueTweets, runSaved, runFailed,
                   runError, cleanupSteps, progressFile, oldestTweetDate,
                   newestTweetDate>>
    /\ UNCHANGED exceptRun

\* The handler's logout has settled, either way: process.exit(0) (line 42).
SignalExit ==
    /\ sig = "logout"
    /\ pc # "exited"
    /\ pc' = "exited"
    /\ exitCode' = Some(0)
    /\ UNCHANGED <<env, dateFlags, filterConfig, sig, feedCalls, collected,
                   requestCount, delivered, uniqueTweets, runSaved, runFailed,
                   runError, cleanupSteps, progressFile, oldestTweetDate,
                   newestTweetDate>>
    /\ UNCHANGED exceptRun

InitRun ==
    /\ env \in SUBSET EnvNames
    /\ dateFlags \in BOOLEAN
    /\ filterConfig = None
    /\ pc = "main"
    /\ sig = "none"
    /\ exitCode = None
    /\ feedCalls = {}
    /\ collected = <<>>
    /\ requestCount = 0
    /\ uniqueTweets = 0
    /\ runSaved = NothingSaved
    /\ runFailed = FALSE
    /\ cleanupSteps = {}
    /\ progressFile = None
    /\ runError = "none"
    /\ delivered = <<>>
    /\ rateLimitHits = 0
    /\ retriesCount = 0
    /\ fallbackUsed = FALSE
    /\ AnalyzeIdle /\ NormalizeIdle /\ CleanIdle /\ MergeIdle /\ MoreIdle

NextRun ==
    \/ RunStart
    \/ Prompt
    \/ InitializeScraper
    \/ IsLoggedIn
    \/ GetProfile
    \/ CollectNext
    \/ CollectRaise
    \/ CollectEnd
    \/ Save
    \/ CleanupLogout
    \/ CleanupProgress
    \/ CleanupCatch
    \/ MainResolved
    \/ MainRejected
    \/ Signal
    \/ SignalExit

SpecRun == InitRun /\ [][NextRun]_vars

\* meta/progress.json holds a record with progress.completed = true.
ProgressCompleted ==
    progressFile # None /\ Val(progressFile).progress.completed

\* C7: if a termination signal arrives during a run, then by the time the
\* process has exited a progress record with progress.completed = true has
\* been written.
C7_Original ==
    (pc = "exited" /\ sig # "none") => ProgressCompleted

\* C8: when a run fails with an error that reaches the catch of run(),
\* cleanup is executed and the process exits with code 1; a process that
\* exits with code 0 without a signal had no such failure.
C8_Original ==
    (pc = "exited" /\ sig = "none") =>
        /\ runFailed => (cleanupSteps # {} /\ exitCode = Some(1))
        /\ exitCode = Some(0) => ~runFailed

\* The calls to the feed source that authenticate and read.
AuthFeedCalls == {"setCookies", "isLoggedIn", "getProfile", "searchTweets"}

\* C9: when a credential needed to authenticate (the auth token or the ct0
\* cookie) is missing, no call to setCookies, isLoggedIn, getProfile or
\* searchTweets is ever made, and a process that had its filter options and
\* exits without a signal exits with code 1.
C9_Original ==
    ~(CookieEnv \subseteq env) =>
        /\ feedCalls \cap AuthFeedCalls = {}
        /\ (pc = "exited" /\ sig = "none" /\ (dateFlags \/ filterConfig # None))
               => exitCode = Some(1)

UniqueIds(ts) ==
    \A i, j \in 1..Len(ts) : ts[i].id = ts[j].id => i = j

\* C10: no two posts of the sequence collectTweets builds have the same id,
\* and no two posts of the corpus createMergedCharacter saves have the same
\* id.
C10_Original ==
    /\ UniqueIds(collected)
    /\ mergeSaved.corpus # None => UniqueIds(Val(mergeSaved.corpus))

-----------------------------------------------------------------------------
(* DataOrganizer.saveTweets, one writeFile at a time *)

\* Bound on the length of the arrays handed to saveTweets.
MaxSaved == 2

\* A call saveTweets(savePosts) has started and written nothing yet.
InitSave ==
    /\ savePosts \in BSeq(AnalyticsPool, MaxSaved)
    /\ saveWritten = <<>>
    /\ saveState = "writing"
    /\ saveFailed = "none"
    /\ AnalyzeIdle /\ NormalizeIdle /\ CleanIdle /\ MergeIdle /\ RunIdle
    /\ ReorderIdle /\ LogIdle /\ DirsIdle

\* The next writeFile of the call resolves.
SaveWrite ==
    /\ saveState = "writing"
    /\ Len(saveWritten) < Len(PlannedWrites(savePosts))
    /\ saveWritten' =
          Append(saveWritten, PlannedWrites(savePosts)[Len(saveWritten) + 1])
    /\ UNCHANGED <<savePosts, saveState, saveFailed, exceptSave>>

\* The next writeFile rejects: the catch logs and rethrows (lines 113-116).
SaveWriteFails ==
    /\ saveState = "writing"
    /\ Len(saveWritten) < Len(PlannedWrites(savePosts))
    /\ saveFailed' = PlannedWrites(savePosts)[Len(saveWritten) + 1]
    /\ saveState' = "raised"
    /\ UNCHANGED <<savePosts, saveWritten, exceptSave>>

\* Nothing is left to write: the call returns the analytics (line 112), or
\* generateAnalytics has raised after urls.txt and the catch rethrows.
SaveFinish ==
    /\ saveState = "writing"
    /\ Len(saveWritten) = Len(PlannedWrites(savePosts))
    /\ saveState' = IF AnalyticsRaises(savePosts) THEN "raised" ELSE "returned"
    /\ UNCHANGED <<savePosts, saveWritten, saveFailed, exceptSave>>

NextSave == SaveWrite \/ SaveWriteFails \/ SaveFinish

SpecSave == InitSave /\ [][NextSave]_vars

\* raw corpus, permalink list, analytics, fine-tuning corpus, summary.
ArtifactOrder == <<"tweets", "urls", "stats", "finetuning", "summary">>

IsPrefix(s, t) == Len(s) <= Len(t) /\ s = SubSeq(t, 1, Len(s))

\* The fine-tuning extraction of the posts yields no entry.
NoFinetuningEntries(ts) ==
    generateFinetuningData([i \in 1..Len(ts) |-> AsFtTweet(ts[i])]) = <<>>

\* The order with the fine-tuning corpus left out when it would be empty.
ArtifactOrderFor(ts) ==
    IF NoFinetuningEntries(ts)
    THEN <<"tweets", "urls", "stats", "summary">>
    ELSE ArtifactOrder

\* C11 as stated: at every point of a call the files written are a prefix of
\* the five artifacts in order; a rejected write is raised with nothing
\* written after it.
C11_Original ==
    /\ IsPrefix(saveWritten, ArtifactOrder)
    /\ saveFailed # "none" =>
          /\ saveState = "raised"
          /\ saveFailed = ArtifactOrder[Len(saveWritten) + 1]
    /\ saveState = "returned" => saveWritten = ArtifactOrder

\* C11: at every point of a call the files written are a prefix of raw
\* corpus, permalink list, analytics, fine-tuning corpus, summary, where the
\* fine-tuning corpus is left out when the extraction yields no entry; a
\* rejected write is raised to the caller with the earlier files in place
\* and nothing written after it; a call that returns has written them all.
C11_WritesInOrder ==
    /\ IsPrefix(saveWritten, ArtifactOrderFor(savePosts))
    /\ saveFailed # "none" =>
          /\ saveState = "raised"
          /\ saveFailed = ArtifactOrderFor(savePosts)[Len(saveWritten) + 1]
    /\ saveState = "returned" => saveWritten = ArtifactOrderFor(savePosts)

\* C11 witness: the write of the analytics was rejected after two files were
\* written, for posts that do yield fine-tuning entries.
C11_Witness ==
    /\ saveState = "raised"
    /\ saveFailed = "stats"
    /\ saveWritten = <<"tweets", "urls">>
    /\ ~NoFinetuningEntries(savePosts)

\* A call returned having written the summary but no fine-tuning corpus.
C11_WitnessNoFinetuning ==
    /\ saveState = "returned"
    /\ NoFinetuningEntries(savePosts)
    /\ saveWritten = <<"tweets", "urls", "stats", "summary">>

-----------------------------------------------------------------------------
(* Rate limiting, cleanup and the error log during a run *)

\* config.twitter.rateLimitThreshold and config.twitter.maxRetries (default).
RateLimitThreshold == 3
MaxRetries == 5

\* C12: on a rate-limit signal from the feed rateLimitHits is incremented,
\* and the run fails only after maxRetries retries, unless it escalated to
\* the fallback at the threshold of consecutive hits.
C12_Original ==
    runError = "rateLimit" =>
        /\ rateLimitHits >= 1
        /\ runFailed =>
              \/ retriesCount >= MaxRetries
              \/ rateLimitHits >= RateLimitThreshold /\ fallbackUsed

-----------------------------------------------------------------------------
(* generateAnalytics: time range, aggregates, arrival order *)

\* The non-null timestamps of an array of posts.
ValidTimestamps(ts) ==
    {Val(ts[i].timestamp) : i \in {j \in 1..Len(ts) : ts[j].timestamp # None}}

SetMin(S) == CHOOSE x \in S : \A y \in S : x <= y
SetMax(S) == CHOOSE x \in S : \A y \in S : x >= y

\* C13: generateAnalytics never raises; timeRange is the days of the least
\* and the greatest non-null timestamp, and "N/A" for both bounds when no
\* post has a non-null timestamp (an empty array, or all timestamps null).
C13_Original ==
    analytics # NotCalled =>
        /\ analytics.kind = "returned"
        /\ analytics.value.timeRange =
              IF ValidTimestamps(tweets) = {}
              THEN [start |-> None, end |-> None]
              ELSE [start |-> Some(FormatDate(SetMin(ValidTimestamps(tweets)))),
                    end |-> Some(FormatDate(SetMax(ValidTimestamps(tweets))))]

\* The positions of the posts that are not retweets.
NonRetweets(ts) == {i \in 1..Len(ts) : ~ts[i].isRetweet}

RECURSIVE SumOver(_, _, _)
SumOver(ts, I, field) ==
    IF I = {} THEN 0
    ELSE LET i == CHOOSE k \in I : TRUE
         IN ts[i][field] + SumOver(ts, I \ {i}, field)

\* avg, in hundredths, is sum / n rounded to two decimals.
IsRounded2(avg, sum, n) ==
    2 * n * avg - n <= 200 * sum /\ 200 * sum < 2 * n * avg + n

\* C14: whenever generateAnalytics returns, the three engagement totals are
\* the sums over the non-retweet posts, averageLikes is a two-decimal number
\* (totalLikes divided by the number of non-retweet posts, "0.00" for an
\* empty array), and totalTweets and the per-type counts count all posts.
C14_Original ==
    (analytics # NotCalled /\ analytics.kind = "returned") =>
        LET a == analytics.value
            I == NonRetweets(tweets)
            n == Len(tweets)
        IN /\ a.totalLikes = SumOver(tweets, I, "likes")
           /\ a.totalRetweetCount = SumOver(tweets, I, "retweetCount")
           /\ a.totalReplies = SumOver(tweets, I, "replies")
           /\ a.averageLikes # None
           /\ IF n = 0 THEN a.averageLikes = Some(0)
              ELSE I # {} =>
                     IsRounded2(Val(a.averageLikes), a.totalLikes,
                                Cardinality(I))
           /\ a.totalTweets = n
           /\ a.retweets = Cardinality({i \in 1..n : tweets[i].isRetweet})
           /\ a.replies = Cardinality({i \in 1..n : tweets[i].isReply})
           /\ a.directTweets =
                 Cardinality({i \in 1..n :
                                 ~tweets[i].isReply /\ ~tweets[i].isRetweet})

\* Bound on the length of the arrays compared under reordering.
MaxReorder == 5

\* Two distinct posts with the same likes and the same retweet count, and a
\* post with more likes.
ReorderPool ==
    { MkPost(1, <<"a">>, Some(170000), FALSE, FALSE, 1, 0, 0),
      MkPost(2, <<"a">>, Some(170009), FALSE, FALSE, 1, 0, 0),
      MkPost(3, <<"a">>, Some(170018), FALSE, FALSE, 2, 0, 0) }

\* The options of the merge whose ranking is compared.
ReorderOptions ==
    [tweetsPerAccount |-> 2, excludeRetweets |-> FALSE,
     rankingMethod |-> "Total engagement (likes + retweets)"]

\* createMergedCharacter lines 315-326 on the concatenation ts: the sequence
\* handed to saveTweets.
mergedTop(ts, options) ==
    Slice0(rankTweets(dropRetweets(ts, options), options),
           effectiveCap(options))

InitReorder ==
    /\ tweets \in BSeq(ReorderPool, MaxReorder)
    /\ permuted = tweets
    /\ analytics = NotCalled
    /\ analyticsPermuted = NotCalled
    /\ rankedTop = None
    /\ rankedPermuted = None
    /\ NormalizeIdle /\ CleanIdle /\ MergeIdle /\ RunIdle /\ SaveIdle /\ LogIdle
    /\ DirsIdle

\* The same posts arrive in another order: two neighbours change places.
SwapNeighbours ==
    /\ analyticsPermuted = NotCalled
    /\ \E i \in 1..(Len(permuted) - 1) :
          permuted' = [permuted EXCEPT ![i] = permuted[i + 1],
                                       ![i + 1] = permuted[i]]
    /\ UNCHANGED <<tweets, analytics, analyticsPermuted, rankedTop,
                   rankedPermuted, exceptReorder>>

\* generateAnalytics is called on either order.
AnalyzeOrders ==
    /\ analyticsPermuted = NotCalled
    /\ analytics' = IF AnalyticsRaises(tweets) THEN Raised
                    ELSE Returned(generateAnalytics(tweets))
    /\ analyticsPermuted' = IF AnalyticsRaises(permuted) THEN Raised
                            ELSE Returned(generateAnalytics(permuted))
    /\ UNCHANGED <<tweets, permuted, rankedTop, rankedPermuted, exceptReorder>>

\* The merge ranks either order.
RankOrders ==
    /\ analyticsPermuted # NotCalled
    /\ rankedPermuted = None
    /\ rankedTop' = Some(mergedTop(tweets, ReorderOptions))
    /\ rankedPermuted' = Some(mergedTop(permuted, ReorderOptions))
    /\ UNCHANGED <<tweets, permuted, analytics, analyticsPermuted,
                   exceptReorder>>

NextReorder == SwapNeighbours \/ AnalyzeOrders \/ RankOrders

SpecReorder == InitReorder /\ [][NextReorder]_vars

\* C15 as stated: the two arrival orders give the same Analytics, topTweets
\* included, and the same ranked sequence.
C15_Original ==
    /\ analyticsPermuted # NotCalled => analyticsPermuted = analytics
    /\ rankedPermuted # None => rankedPermuted = rankedTop

\* The analytics without the list of top tweets.
WithoutTop(a) == [f \in (DOMAIN a) \ {"topTweets"} |-> a[f]]

\* No two different posts of ts, among those selected, have the same score.
NoTies(ts, selected(_), score(_)) ==
    \A i, j \in 1..Len(ts) :
        (selected(ts[i]) /\ selected(ts[j]) /\ ts[i] # ts[j])
            => score(ts[i]) # score(ts[j])

Likes(t) == t.likes
Engagement(t) == t.likes + t.retweetCount
NotRetweet(t) == ~t.isRetweet
AnyPost(t) == TRUE

\* C15: for two arrival orders of the same posts generateAnalytics returns
\* the same counts, aggregates and time range, and topTweets and the merged
\* sequence show the same scores position by position; the lists themselves
\* are equal whenever no two different posts have the same score (posts with
\* equal score keep their arrival order).
C15_SameUpToTies ==
    /\ analyticsPermuted # NotCalled =>
          /\ analyticsPermuted.kind = analytics.kind
          /\ analytics.kind = "returned" =>
                LET a == analytics.value
                    b == analyticsPermuted.value
                IN /\ WithoutTop(a) = WithoutTop(b)
                   /\ Len(a.topTweets) = Len(b.topTweets)
                   /\ \A k \in 1..Len(a.topTweets) :
                         a.topTweets[k].likes = b.topTweets[k].likes
                   /\ NoTies(tweets, NotRetweet, Likes)
                         => a.topTweets = b.topTweets
    /\ rankedPermuted # None =>
          LET r == Val(rankedTop)
              q == Val(rankedPermuted)
          IN /\ Len(r) = Len(q)
             /\ \A k \in 1..Len(r) : Engagement(r[k]) = Engagement(q[k])
             /\ NoTies(tweets, AnyPost, Engagement) => r = q

\* C15 witness: posts without ties arrived in two different orders, the
\* lower score first in one of them, and both were analysed and ranked.
C15_Witness ==
    /\ rankedPermuted # None
    /\ Len(tweets) >= 2
    /\ permuted # tweets
    /\ NoTies(tweets, AnyPost, Engagement)
    /\ tweets[1].likes < tweets[2].likes
    /\ analytics.kind = "returned"
    /\ analytics.value.topTweets = analyticsPermuted.value.topTweets

\* Two orders of tied posts gave different top lists and different merged
\* sequences, the latter cut to the cap.
C15_WitnessTies ==
    /\ rankedPermuted # None
    /\ analytics.kind = "returned"
    /\ analytics.value.topTweets # analyticsPermuted.value.topTweets
    /\ Len(tweets) > Len(Val(rankedTop))
    /\ rankedTop # rankedPermuted

-----------------------------------------------------------------------------
(* The files a merge writes *)

\* C16: every file a merge writes lies under the merged character's own
\* directory, which is the directory of no source account.
C16_Original ==
    \A w \in mergeWrites :
        /\ w.dir = baseDirAccount(mergedName)
        /\ \A i \in 1..Len(sourceAccounts) : w.dir # sourceAccounts[i]

-----------------------------------------------------------------------------
(* Cleanup and error logging of a failed run *)

\* run() has settled after entering its catch block.
FailedRunSettled == runFailed /\ pc \in {"returned", "rejected"}

\* C17: once cleanup has run after a failure, logout and the terminal
\* progress write have both been attempted, whichever step failed, and no
\* failure of a cleanup step leaves cleanup() or run().  (The fallback
\* cluster is never launched, so there is no teardown to attempt.)
C17_Original ==
    /\ pc # "rejected"
    /\ FailedRunSettled =>
          /\ "logout" \in cleanupSteps
          /\ cleanupSteps \cap {"saveProgress", "saveProgressError"} # {}

\* C18: when run() has settled after catching an error, an entry for that
\* error has been appended to the error log.  (No write of the log is ever
\* attempted during a run, so none can have failed.)
C18_Original ==
    FailedRunSettled => Len(errorLog) >= 1

-----------------------------------------------------------------------------
(* TwitterPipeline.logError *)

\* existingLogs.length > 100, slice(-100)
MaxErrorLog == 100

\* Bound on the number of logError calls followed.
MaxLogCalls == 4

keepOldest(logs) ==
    IF Len(logs) > MaxErrorLog THEN SubSeq(logs, 1, MaxErrorLog) ELSE logs

\* lines 582-584: existingLogs.slice(-100) when longer than 100.
keepRecent(logs) ==
    IF Len(logs) > MaxErrorLog
    THEN SubSeq(logs, Len(logs) - MaxErrorLog + 1, Len(logs))
    ELSE logs

\* What the calls to the file system do in one logError: both succeed, the
\* read (or JSON.parse) of an existing log fails, or the write is rejected.
LogOutcomes == {"ok", "readFails", "writeFails"}

\* The list logError would write (lines 571-584) as entry number n.
logsToWrite(existing, readFails, n) ==
    keepRecent(Append(IF readFails THEN <<>> ELSE existing, n))

\* The log file as earlier runs of the day left it: absent, or holding the
\* k entries before this run, numbered 1-k .. 0 in the order of logging.
InitLog ==
    /\ \E k \in {0} \cup ((MaxErrorLog - 2)..MaxErrorLog) :
          errorLog = [i \in 1..k |-> i - k]
    /\ logPersisted = errorLog
    /\ logCalls = 0
    /\ logReadFault = FALSE
    /\ AnalyzeIdle /\ NormalizeIdle /\ CleanIdle /\ MergeIdle /\ RunIdle
    /\ SaveIdle /\ ReorderIdle /\ DirsIdle

\* One call logError(error, context); a rejected write is caught and only
\* logged to the console (lines 587-589).
LogError ==
    /\ logCalls < MaxLogCalls
    /\ logCalls' = logCalls + 1
    /\ \E outcome \in LogOutcomes :
          /\ logReadFault' =
                (logReadFault \/ (outcome = "readFails" /\ errorLog # <<>>))
          /\ IF outcome = "writeFails"
             THEN UNCHANGED <<errorLog, logPersisted>>
             ELSE /\ errorLog' = logsToWrite(errorLog, outcome = "readFails",
                                             logCalls + 1)
                  /\ logPersisted' = Append(logPersisted, logCalls + 1)
    /\ UNCHANGED exceptLog

NextLog == LogError

SpecLog == InitLog /\ [][NextLog]_vars

IsSuffix(s, t) ==
    Len(s) <= Len(t) /\ s = SubSeq(t, Len(t) - Len(s) + 1, Len(t))

\* C19: the persisted error log never holds more than 100 entries; they are
\* the most recently persisted entries in the order of logging (a suffix of
\* everything persisted, so eviction takes the oldest and the entry written
\* last is the last one); as long as every read of the log succeeded, all
\* of the last 100 persisted entries are there.
C19_BoundedRecent ==
    /\ Len(errorLog) <= MaxErrorLog
    /\ IsSuffix(errorLog, logPersisted)
    /\ ~logReadFault =>
          Len(errorLog) = Min2(MaxErrorLog, Len(logPersisted))

\* C19 witness: more than 100 entries have been persisted, the log holds
\* 100 of them, the oldest is evicted and the newest is last.
C19_Witness ==
    /\ Len(logPersisted) > MaxErrorLog + 1
    /\ Len(errorLog) = MaxErrorLog
    /\ errorLog[1] > logPersisted[1]
    /\ logCalls >= 2
    /\ errorLog[Len(errorLog)] = logCalls

-----------------------------------------------------------------------------
(* The counters and date trackers of collectTweets *)

\* The Posts of the delivered records that pass the filter and normalize.
RECURSIVE PostsOf(_, _)
PostsOf(raws, config) ==
    IF raws = <<>> THEN <<>>
    ELSE LET r == processTweetData(Head(raws), None, None)
         IN (IF shouldIncludeTweet(Head(raws), config) /\ r.value # None
             THEN <<Val(r.value)>> ELSE <<>>)
            \o PostsOf(Tail(raws), config)

C20_Counters ==
    /\ requestCount = Len(delivered)
    /\ uniqueTweets = Len(collected)
    /\ uniqueTweets <= requestCount
    /\ delivered # <<>> => collected = PostsOf(delivered, Val(filterConfig))

C20_Trackers ==
    IF ValidTimestamps(collected) = {}
    THEN oldestTweetDate = None /\ newestTweetDate = None
    ELSE /\ oldestTweetDate = Some(NewDate(SetMin(ValidTimestamps(collected))))
         /\ newestTweetDate = Some(NewDate(SetMax(ValidTimestamps(collected))))

-----------------------------------------------------------------------------
(* The un-awaited createDirectories beside the owner of the DataOrganizer *)

\* const dirs = ['raw', 'processed', 'analytics', 'exports', 'meta'];
dirs == <<"raw", "processed", "analytics", "exports", "meta">>

\* getPaths, and progressPath of saveProgress: the directory of each file.
DirOf(file) ==
    CASE file \in {"tweets", "urls"} -> "raw"
      [] file = "finetuning" -> "processed"
      [] file = "stats" -> "analytics"
      [] file = "summary" -> "exports"
      [] file = "progress" -> "meta"

\* The writeFile calls of saveTweets for posts that yield a corpus.
saveTweetsWrites == <<"tweets", "urls", "stats", "finetuning", "summary">>

\* What the owner does after its constructor returned, as the steps at which
\* it can be overtaken: "await" is an awaited operation that touches no
\* directory of the partition, "raise" one that rejects, a file name is the
\* await of the writeFile of that file.
\*   run:          initializeScraper, getProfile, collectTweets, saveTweets
\*   runFails:     initializeScraper, getProfile, collectTweets rejects
\*   cleanup:      scraper.logout, readFile and writeFile of saveProgress
\*   cleanupCatch: readFile and writeFile of the second saveProgress
\*   merge:        getTweetsForAccount per account, the prompt,
\*                 getTweetsForAccount per account again, saveTweets
CallerSteps(plan) ==
    CASE plan = "run" -> <<"await", "await", "await">> \o saveTweetsWrites
      [] plan = "runFails" -> <<"await", "await", "raise">>
      [] plan = "cleanup" -> <<"await", "await", "progress">>
      [] plan = "cleanupCatch" -> <<"await", "progress">>
      [] plan = "merge" ->
            <<"await", "await", "await", "await", "await">>
                \o saveTweetsWrites
      [] OTHER -> <<>>

\* Where a rejection inside a plan is caught: run() calls cleanup(), the
\* catch of cleanup() calls saveProgress again, whose rejection nobody
\* catches; main() of the merge script logs and exits.
OnRaise(plan) ==
    CASE plan \in {"run", "runFails"} -> "cleanup"
      [] plan = "cleanup" -> "cleanupCatch"
      [] plan = "cleanupCatch" -> "rejected"
      [] OTHER -> "exited"

CallerStep ==
    IF callerPc <= Len(CallerSteps(callerPlan))
    THEN CallerSteps(callerPlan)[callerPc] ELSE "done"

\* The state when new DataOrganizer(...) has returned on a day with no
\* partition yet: createDirectories has issued its first mkdir and is
\* suspended at the await; the owner is about to go on.
InitDirs ==
    /\ mkdirNext = 1
    /\ dirsCreated = {}
    /\ callerPlan \in {"run", "runFails", "merge"}
    /\ callerPc = 1
    /\ dirWrites = <<>>
    /\ AnalyzeIdle /\ NormalizeIdle /\ CleanIdle /\ MergeIdle /\ RunIdle
    /\ SaveIdle /\ ReorderIdle /\ LogIdle

\* The mkdir in flight resolves; the loop issues the next one.
MkdirResolves ==
    /\ mkdirNext \in 1..Len(dirs)
    /\ dirsCreated' = dirsCreated \cup {dirs[mkdirNext]}
    /\ mkdirNext' = mkdirNext + 1
    /\ UNCHANGED <<callerPlan, callerPc, dirWrites, exceptDirs>>

\* The mkdir in flight rejects: the catch warns and the loop goes on.
MkdirRejects ==
    /\ mkdirNext \in 1..Len(dirs)
    /\ mkdirNext' = mkdirNext + 1
    /\ UNCHANGED <<dirsCreated, callerPlan, callerPc, dirWrites, exceptDirs>>

CallerAwait ==
    /\ CallerStep = "await"
    /\ callerPc' = callerPc + 1
    /\ UNCHANGED <<mkdirNext, dirsCreated, callerPlan, dirWrites, exceptDirs>>

CallerRaise ==
    /\ CallerStep = "raise"
    /\ callerPlan' = OnRaise(callerPlan)
    /\ callerPc' = 1
    /\ UNCHANGED <<mkdirNext, dirsCreated, dirWrites, exceptDirs>>

IsWrite(step) == step \notin {"await", "raise", "done"}

\* writeFile into a directory that exists.
CallerWrite ==
    /\ IsWrite(CallerStep)
    /\ DirOf(CallerStep) \in dirsCreated
    /\ dirWrites' = Append(dirWrites, [file |-> CallerStep, created |-> TRUE])
    /\ callerPc' = callerPc + 1
    /\ UNCHANGED <<mkdirNext, dirsCreated, callerPlan, exceptDirs>>

\* writeFile into a directory that does not exist rejects with ENOENT.
CallerWriteRejects ==
    /\ IsWrite(CallerStep)
    /\ DirOf(CallerStep) \notin dirsCreated
    /\ dirWrites' = Append(dirWrites, [file |-> CallerStep, created |-> FALSE])
    /\ callerPlan' = OnRaise(callerPlan)
    /\ callerPc' = 1
    /\ UNCHANGED <<mkdirNext, dirsCreated, exceptDirs>>

NextDirs ==
    \/ MkdirResolves
    \/ MkdirRejects
    \/ CallerAwait
    \/ CallerRaise
    \/ CallerWrite
    \/ CallerWriteRejects

SpecDirs == InitDirs /\ [][NextDirs]_vars

\* C21: in every interleaving of createDirectories with its owner, each
\* writeFile of saveTweets and of saveProgress is issued only after
\* createDirectories has created the directory of that file.
C21_Original ==
    \A i \in 1..Len(dirWrites) : dirWrites[i].created

=============================================================================
